---------------------------- MODULE Spec2Model ----------------------------
(***************************************************************************)
(* Study-portal orchestrator: the router (root_agent.py), the four agent   *)
(* nodes (agents/*.py), the turn entry point (orchestrator.py) and the two *)
(* hosts that own a session (orchestrator.main, websocket_server.py).      *)
(*                                                                         *)
(* A session is the RootAgentState dict.  Utterances and responses are     *)
(* real strings; the keyword tests of the code are substring tests on the  *)
(* lower-cased utterance and are computed here character by character.     *)
(* The two LLM capabilities (routing chain, generation chains) are the     *)
(* environment: each call returns a value drawn from a small set or        *)
(* raises.                                                                 *)
(***************************************************************************)
EXTENDS Integers, Sequences, FiniteSets, TLC

VARIABLES
    host,                  \* which host owns the session: "cli" or "ws"
    pc,                    \* position inside the turn
    user_role,             \* state['user_role']
    user_query,            \* state['user_query']
    conversation_history,  \* state['conversation_history']
    current_agent,         \* state['current_agent']
    awaiting,              \* state['current_agent_awaiting_parameters']
    scratchpad,            \* state['sub_agent_scratchpad']
    system_response,       \* state['system_response']
    error,                 \* state['error']
    conns,                 \* where each WebSocket connection's handler stands
    turn                   \* observer: what happened in the turn in progress

vars == <<host, pc, user_role, user_query, conversation_history, current_agent,
          awaiting, scratchpad, system_response, error, conns, turn>>

sessionVars == <<user_role, user_query, conversation_history, current_agent,
                 awaiting, scratchpad, system_response, error>>

---------------------------------------------------------------------------
(* Bounds *)

\* conversation_history is unbounded in the code; a turn starts only while
\* its two entries still fit.
MaxHistory == 4

---------------------------------------------------------------------------
(* Python values *)

None == "None"

EmptyPad == [k \in {} |-> ""]

\* mutant of the item assignment: the dict is built anew with the one key
Put_Fresh(d, k, v) == [x \in {k} |-> v]

\* dict item assignment d[k] = v
Put(d, k, v) == [x \in (DOMAIN d) \cup {k} |-> IF x = k THEN v ELSE d[x]]

\* truthiness of d.get(k): present, and not "" / not 0
Truthy(d, k) ==
    /\ k \in DOMAIN d
    /\ IF k = "question_count" THEN d[k] # 0 ELSE d[k] # ""

---------------------------------------------------------------------------
(* Strings *)

UpperLetters == <<"A","B","C","D","E","F","G","H","I","J","K","L","M",
                  "N","O","P","Q","R","S","T","U","V","W","X","Y","Z">>
LowerLetters == <<"a","b","c","d","e","f","g","h","i","j","k","l","m",
                  "n","o","p","q","r","s","t","u","v","w","x","y","z">>
Digits == <<"0","1","2","3","4","5","6","7","8","9">>

IndexIn(seq, c) ==
    IF \E i \in 1..Len(seq) : seq[i] = c
    THEN CHOOSE i \in 1..Len(seq) : seq[i] = c
    ELSE 0

CharAt(s, i) == SubSeq(s, i, i)

IsLetter(c) == IndexIn(UpperLetters, c) # 0 \/ IndexIn(LowerLetters, c) # 0
IsDigit(c) == IndexIn(Digits, c) # 0
IsSpace(c) == c = " "

LowerChar(c) == IF IndexIn(UpperLetters, c) # 0
                THEN LowerLetters[IndexIn(UpperLetters, c)] ELSE c
UpperChar(c) == IF IndexIn(LowerLetters, c) # 0
                THEN UpperLetters[IndexIn(LowerLetters, c)] ELSE c

\* str.lower()
RECURSIVE Lower(_)
Lower(s) == IF Len(s) = 0 THEN ""
            ELSE LowerChar(CharAt(s, 1)) \o Lower(SubSeq(s, 2, Len(s)))

\* str.title(): a letter is upper-cased after a non-letter (or at the
\* start) and lower-cased after a letter
RECURSIVE TitleFrom(_, _)
TitleFrom(s, afterLetter) ==
    IF Len(s) = 0 THEN ""
    ELSE LET c == CharAt(s, 1)
         IN  (IF afterLetter THEN LowerChar(c) ELSE UpperChar(c))
                 \o TitleFrom(SubSeq(s, 2, Len(s)), IsLetter(c))
\* mutant of str.title(): the string as it is
Title_AsIs(s) == s

Title(s) == TitleFrom(s, FALSE)

\* k in s
Contains(s, k) ==
    \E i \in 1..(Len(s) - Len(k) + 1) : SubSeq(s, i, i + Len(k) - 1) = k

\* any(k in s for k in ks)
ContainsAny(s, ks) == \E i \in 1..Len(ks) : Contains(s, ks[i])

\* str.strip()
RECURSIVE Strip(_)
Strip(s) ==
    IF Len(s) = 0 THEN s
    ELSE IF IsSpace(CharAt(s, 1)) THEN Strip(SubSeq(s, 2, Len(s)))
    ELSE IF IsSpace(CharAt(s, Len(s))) THEN Strip(SubSeq(s, 1, Len(s) - 1))
    ELSE s

\* str.split(): the maximal runs of non-blank characters
RECURSIVE SplitFrom(_, _)
SplitFrom(s, word) ==
    IF Len(s) = 0 THEN (IF word = "" THEN <<>> ELSE <<word>>)
    ELSE LET c == CharAt(s, 1)
             rest == SubSeq(s, 2, Len(s))
         IN  IF IsSpace(c)
             THEN (IF word = "" THEN <<>> ELSE <<word>>) \o SplitFrom(rest, "")
             ELSE SplitFrom(rest, word \o c)
Split(s) == SplitFrom(s, "")

\* ' '.join(ws)
RECURSIVE Join(_)
Join(ws) == IF Len(ws) = 0 THEN ""
            ELSE IF Len(ws) = 1 THEN ws[1]
            ELSE ws[1] \o " " \o Join(Tail(ws))

\* words[a:b] with 0-based a, b as in Python
Slice(ws, a, b) ==
    SubSeq(ws, a + 1, IF b < Len(ws) THEN b ELSE Len(ws))

\* int(re.findall(r'\d+', s)[0]): the first maximal run of digits, or -1
\* when s holds no digit
RECURSIVE DigitRun(_, _)
DigitRun(s, acc) ==
    IF Len(s) = 0 \/ ~IsDigit(CharAt(s, 1)) THEN acc
    ELSE DigitRun(SubSeq(s, 2, Len(s)),
                  10 * acc + (IndexIn(Digits, CharAt(s, 1)) - 1))
RECURSIVE FirstInt(_)
FirstInt(s) ==
    IF Len(s) = 0 THEN -1
    ELSE IF IsDigit(CharAt(s, 1)) THEN DigitRun(s, 0)
    ELSE FirstInt(SubSeq(s, 2, Len(s)))

---------------------------------------------------------------------------
(* Environment: what the user may type, what a generation chain may return *)

Utterances ==
    { "How did I do on my Python assignment?",
      "Python Basics",
      "Generate 5 Python questions",
      "never mind",
      "stop",
      "I want to learn machine learning",
      "I'm an intermediate, and I'm interested in NLP.",
      "medium",
      "Thanks!" }

GenTexts == {"<generated text>"}

Hosts == {"cli", "ws"}

\* str.lower() and str.split() of the utterances, computed once
LowerOfUtterance == [u \in Utterances |-> Lower(u)]
SplitOfUtterance == [u \in Utterances |-> Split(u)]
LowerQ(s) == IF s \in Utterances THEN LowerOfUtterance[s] ELSE Lower(s)
SplitQ(s) == IF s \in Utterances THEN SplitOfUtterance[s] ELSE Split(s)

---------------------------------------------------------------------------
(* Handler registry: AgentInfo.AGENTS *)

ASSIGNMENT == "assignment_review_agent"
LEARNING   == "learning_path_agent"
QUESTION   == "question_generation_agent"
FAQ        == "faq_fallback_agent"

AgentIds == {ASSIGNMENT, LEARNING, QUESTION, FAQ}

\* mutant of the registry: question generation is listed for consultants
\* as well, which the handler's own role check does not follow
AGENTS_QuestionForConsultants ==
    [a \in AgentIds |->
        CASE a = ASSIGNMENT ->
                [roles |-> <<"Consultant">>,
                 parameters |-> <<"assignment_id", "assignment_title">>]
          [] a = LEARNING ->
                [roles |-> <<"Consultant">>,
                 parameters |-> <<"topic", "skill_level">>]
          [] a = QUESTION ->
                [roles |-> <<"Admin", "Consultant">>,
                 parameters |-> <<"topic", "difficulty", "question_count">>]
          [] a = FAQ ->
                [roles |-> <<"All">>,
                 parameters |-> <<>>]]

AGENTS ==
    [a \in AgentIds |->
        CASE a = ASSIGNMENT ->
                [roles |-> <<"Consultant">>,
                 parameters |-> <<"assignment_id", "assignment_title">>]
          [] a = LEARNING ->
                [roles |-> <<"Consultant">>,
                 parameters |-> <<"topic", "skill_level">>]
          [] a = QUESTION ->
                [roles |-> <<"Admin">>,
                 parameters |-> <<"topic", "difficulty", "question_count">>]
          [] a = FAQ ->
                [roles |-> <<"All">>,
                 parameters |-> <<>>]]

Roles == {"Consultant", "Admin", "SME"}

InSeq(x, seq) == \E i \in 1..Len(seq) : seq[i] = x

\* mutants of check_role_permission: the role is not compared; an agent the
\* registry does not know is let through
CheckRolePermission_AnyRegistered(agent_name, role) == agent_name \in AgentIds
CheckRolePermission_UnknownAllowed(agent_name, role) ==
    IF agent_name \notin AgentIds
    THEN TRUE
    ELSE LET allowed_roles == AGENTS[agent_name].roles
         IN  InSeq("All", allowed_roles) \/ InSeq(role, allowed_roles)

\* RootAgentRouter.check_role_permission
CheckRolePermission(agent_name, role) ==
    IF agent_name \notin AgentIds
    THEN FALSE
    ELSE LET allowed_roles == AGENTS[agent_name].roles
         IN  InSeq("All", allowed_roles) \/ InSeq(role, allowed_roles)

\* mutant of is_abandonment: only the first keyword is looked for
IsAbandonment_FirstKeywordOnly(query) == Contains(LowerQ(query), "cancel")

\* RootAgentRouter.analyze_context: analysis['is_abandonment']
abandonment_keywords == <<"never mind", "cancel", "forget it", "stop", "quit">>
IsAbandonment(query) == ContainsAny(LowerQ(query), abandonment_keywords)

---------------------------------------------------------------------------
(* Assignment review agent *)

AssignmentClarification ==
    "Which assignment are you interested in? Please provide the assignment name or ID."

\* mutant of extract_parameters: the known title is only taken from an
\* utterance that also says "assignment"
AssignmentExtract_NeedsKeyword(query, pad) ==
    LET q == LowerQ(query)
    IN  IF Contains(q, "python") /\ Contains(q, "basic") /\ Contains(q, "assignment")
        THEN Put(pad, "assignment_title", "Python Basics")
        ELSE pad

\* mutant of extract_parameters: the title found is appended to the title
\* already held
AssignmentExtract_Appends(query, pad) ==
    LET q == LowerQ(query)
        held == IF "assignment_title" \in DOMAIN pad
                THEN pad["assignment_title"] \o " " ELSE ""
    IN  IF Contains(q, "python") /\ Contains(q, "basic")
        THEN Put(pad, "assignment_title", held \o "Python Basics")
        ELSE pad

\* AssignmentReviewAgent.extract_parameters
AssignmentExtract(query, pad) ==
    LET q == LowerQ(query)
        words == SplitQ(query)
        hits == {i \in 1..Len(words) :
                    /\ Lower(words[i]) \in {"assignment", "task", "homework"}
                    /\ i < Len(words)}
        last == CHOOSE i \in hits : \A j \in hits : j <= i
    IN  IF Contains(q, "python") /\ Contains(q, "basic")
        THEN Put(pad, "assignment_title", "Python Basics")
        ELSE IF Contains(q, "assignment") /\ hits # {}
        THEN Put(pad, "assignment_title", Join(Slice(words, last, last + 2)))
        ELSE pad

\* AssignmentReviewAgent.validate_parameters
AssignmentValidate(pad) ==
    IF ~(Truthy(pad, "assignment_id") \/ Truthy(pad, "assignment_title"))
    THEN [complete |-> FALSE,
          missing |-> <<"assignment_id or assignment_title">>,
          clarification |-> AssignmentClarification,
          pad |-> pad]
    ELSE [complete |-> TRUE, missing |-> <<>>, clarification |-> None, pad |-> pad]

---------------------------------------------------------------------------
(* Learning path agent *)

learning_topics ==
    <<"machine learning", "python", "data science", "nlp",
      "natural language processing", "deep learning", "web development",
      "javascript", "react", "sql", "databases">>

\* the first topic of the list found in q (0 when none): for ... break
FirstTopic(topics, q) ==
    IF \E i \in 1..Len(topics) : Contains(q, topics[i])
    THEN CHOOSE i \in 1..Len(topics) :
            /\ Contains(q, topics[i])
            /\ \A j \in 1..(i - 1) : ~Contains(q, topics[j])
    ELSE 0

\* LearningPathAgent.extract_parameters
LearningExtract(query, pad) ==
    LET q == LowerQ(query)
        t == FirstTopic(learning_topics, q)
        pad1 == IF t = 0 THEN pad
                ELSE IF learning_topics[t] = "nlp"
                THEN Put(pad, "topic", "Natural Language Processing")
                ELSE Put(pad, "topic", Title(learning_topics[t]))
    IN  IF Contains(q, "beginner") \/ Contains(q, "new to") \/ Contains(q, "starting")
        THEN Put(pad1, "skill_level", "Beginner")
        ELSE IF Contains(q, "intermediate") \/ Contains(q, "some experience")
        THEN Put(pad1, "skill_level", "Intermediate")
        ELSE IF Contains(q, "advanced") \/ Contains(q, "expert")
        THEN Put(pad1, "skill_level", "Advanced")
        ELSE pad1

\* mutant of validate_parameters: the question about the skill level names
\* the topic already collected
LearningValidate_EchoesTopic(pad) ==
    LET missing == (IF Truthy(pad, "topic") THEN <<>> ELSE <<"topic">>)
                   \o (IF Truthy(pad, "skill_level") THEN <<>> ELSE <<"skill_level">>)
        clarification ==
            "To recommend the best learning resources for you, I need:\n"
            \o (IF InSeq("topic", missing)
                THEN "- What topic would you like to learn?\n"
                ELSE "- For " \o pad["topic"] \o ":\n")
            \o (IF InSeq("skill_level", missing)
                THEN "- What is your current skill level? (Beginner/Intermediate/Advanced)\n"
                ELSE "")
    IN  IF missing # <<>>
        THEN [complete |-> FALSE, missing |-> missing,
              clarification |-> SubSeq(clarification, 1, Len(clarification) - 1),
              pad |-> pad]
        ELSE [complete |-> TRUE, missing |-> <<>>, clarification |-> None, pad |-> pad]

\* LearningPathAgent.validate_parameters
LearningValidate(pad) ==
    LET missing == (IF Truthy(pad, "topic") THEN <<>> ELSE <<"topic">>)
                   \o (IF Truthy(pad, "skill_level") THEN <<>> ELSE <<"skill_level">>)
        clarification ==
            "To recommend the best learning resources for you, I need:\n"
            \o (IF InSeq("topic", missing)
                THEN "- What topic would you like to learn?\n" ELSE "")
            \o (IF InSeq("skill_level", missing)
                THEN "- What is your current skill level? (Beginner/Intermediate/Advanced)\n"
                ELSE "")
    IN  IF missing # <<>>
        THEN [complete |-> FALSE, missing |-> missing,
              clarification |-> SubSeq(clarification, 1, Len(clarification) - 1),
              pad |-> pad]
        ELSE [complete |-> TRUE, missing |-> <<>>, clarification |-> None, pad |-> pad]

---------------------------------------------------------------------------
(* Question generation agent *)

question_topics ==
    <<"python", "machine learning", "data science", "sql", "javascript",
      "algorithms", "data structures", "web development">>

\* mutant of check_permissions: every role passes
CheckPermissions_Always(role) == TRUE

\* QuestionGenerationAgent.check_permissions
CheckPermissions(role) == role = "Admin"

\* QuestionGenerationAgent.extract_parameters
QuestionExtract(query, pad) ==
    LET q == LowerQ(query)
        t == FirstTopic(question_topics, q)
        pad1 == IF t = 0 THEN pad ELSE Put(pad, "topic", Title(question_topics[t]))
        pad2 == IF Contains(q, "easy") \/ Contains(q, "beginner")
                THEN Put(pad1, "difficulty", "Easy")
                ELSE IF Contains(q, "medium") \/ Contains(q, "intermediate")
                THEN Put(pad1, "difficulty", "Medium")
                ELSE IF Contains(q, "hard") \/ Contains(q, "advanced")
                        \/ Contains(q, "difficult")
                THEN Put(pad1, "difficulty", "Hard")
                ELSE pad1
        n == FirstInt(q)
    IN  IF n >= 0 THEN Put(pad2, "question_count", n) ELSE pad2

\* mutant of validate_parameters: a count not given is asked for instead of
\* defaulted
QuestionValidate_CountRequired(pad) ==
    LET missing == (IF Truthy(pad, "topic") THEN <<>> ELSE <<"topic">>)
                   \o (IF Truthy(pad, "difficulty") THEN <<>> ELSE <<"difficulty">>)
                   \o (IF Truthy(pad, "question_count") THEN <<>>
                       ELSE <<"question_count">>)
        clarification ==
            "To generate questions, I need:\n"
            \o (IF InSeq("topic", missing)
                THEN "- What topic should the questions cover?\n" ELSE "")
            \o (IF InSeq("difficulty", missing)
                THEN "- What difficulty level? (Easy/Medium/Hard)\n" ELSE "")
    IN  IF missing # <<>>
        THEN [complete |-> FALSE, missing |-> missing,
              clarification |-> SubSeq(clarification, 1, Len(clarification) - 1),
              pad |-> pad]
        ELSE [complete |-> TRUE, missing |-> <<>>, clarification |-> None, pad |-> pad]

\* QuestionGenerationAgent.validate_parameters; pad is the scratchpad after
\* the in-place default of question_count
QuestionValidate(pad) ==
    LET missing == (IF Truthy(pad, "topic") THEN <<>> ELSE <<"topic">>)
                   \o (IF Truthy(pad, "difficulty") THEN <<>> ELSE <<"difficulty">>)
        pad1 == IF ~Truthy(pad, "question_count")
                THEN Put(pad, "question_count", 5) ELSE pad
        clarification ==
            "To generate questions, I need:\n"
            \o (IF InSeq("topic", missing)
                THEN "- What topic should the questions cover?\n" ELSE "")
            \o (IF InSeq("difficulty", missing)
                THEN "- What difficulty level? (Easy/Medium/Hard)\n" ELSE "")
    IN  IF missing # <<>>
        THEN [complete |-> FALSE, missing |-> missing,
              clarification |-> SubSeq(clarification, 1, Len(clarification) - 1),
              pad |-> pad1]
        ELSE [complete |-> TRUE, missing |-> <<>>, clarification |-> None, pad |-> pad1]

QuestionDenial ==
    "I'm sorry, but question generation is only available to Admin users. You are currently logged in as a Consultant."

\* dict.get(k, default)
Get(d, k, default) == IF k \in DOMAIN d THEN d[k] ELSE default

\* QuestionGenerationAgent.generate_response, questions being the text the
\* generation chain returned
QuestionResponse(pad, questions) ==
    "I've generated " \o ToString(Get(pad, "question_count", 5)) \o " "
        \o Get(pad, "difficulty", "Medium") \o " level questions about "
        \o Get(pad, "topic", "Unknown") \o ":\n\n" \o questions
        \o "\n\nWould you like me to generate more questions or modify these?"

---------------------------------------------------------------------------
(* FAQ & fallback agent *)

greetings == <<"hello", "hi", "hey", "good morning", "good afternoon", "good evening">>
thanks == <<"thank", "thanks", "appreciate", "grateful">>

\* FAQFallbackAgent.faq_db, in insertion order
faq_db ==
    << [key |-> "how to submit assignment",
        answer |-> "To submit an assignment, log into the portal, navigate to your Assignments section, select the assignment, and click the \"Submit\" button. You can upload files or paste your work directly."],
       [key |-> "how to check grades",
        answer |-> "You can check your grades by going to the Assignments section and clicking on any completed assignment. Your grade and feedback will be displayed."],
       [key |-> "forgot password",
        answer |-> "To reset your password, click on \"Forgot Password\" on the login page. Enter your email, and you'll receive a password reset link."],
       [key |-> "portal features",
        answer |-> "The portal offers assignment tracking, grade viewing, learning path recommendations, and practice question generation (for admins). You can also view your performance insights."],
       [key |-> "contact support",
        answer |-> "You can contact support by emailing support@studyportal.com or using the \"Contact Us\" form in the Help section."] >>

\* key.split() of each entry
faq_key_words == [i \in 1..Len(faq_db) |-> Split(faq_db[i].key)]

GreetingText ==
    "Hello! I'm here to help you with your study portal. You can ask me about:\n- Your assignments and grades\n- Learning recommendations\n- General questions about the portal\n\nWhat would you like to know?"

\* the text ends with the emoji U+1F60A, written here by its code point
ThanksText ==
    "You're welcome! Feel free to ask if you need anything else. Happy learning! <U+1F60A>"

\* FAQFallbackAgent.handle_greeting
HandleGreeting(query) == ContainsAny(LowerQ(query), greetings)

\* FAQFallbackAgent.handle_thanks
HandleThanks(query) == ContainsAny(LowerQ(query), thanks)

\* FAQFallbackAgent.search_faq: the answer of the first entry one of whose
\* key words occurs in the query, None when there is none
SearchFaq(query) ==
    LET q == LowerQ(query)
        hit(i) == ContainsAny(q, faq_key_words[i])
    IN  IF \E i \in 1..Len(faq_db) : hit(i)
        THEN faq_db[CHOOSE i \in 1..Len(faq_db) :
                        hit(i) /\ \A j \in 1..(i - 1) : ~hit(j)].answer
        ELSE None

\* whether FAQFallbackAgent.generate_response reaches the generation chain
FaqCallsLLM(query) ==
    ~HandleGreeting(query) /\ ~HandleThanks(query) /\ SearchFaq(query) = None

\* mutant of generate_response: the FAQ table is searched first
FaqResponse_TableFirst(query, g) ==
    IF SearchFaq(query) # None THEN SearchFaq(query)
    ELSE IF HandleGreeting(query) THEN GreetingText
    ELSE IF HandleThanks(query) THEN ThanksText
    ELSE g

\* FAQFallbackAgent.generate_response, g being what the chain returns when
\* it is reached
FaqResponse(query, g) ==
    IF HandleGreeting(query) THEN GreetingText
    ELSE IF HandleThanks(query) THEN ThanksText
    ELSE IF SearchFaq(query) # None THEN SearchFaq(query)
    ELSE g

---------------------------------------------------------------------------
(* Router *)

\* mutant of route: CONTINUE_CURRENT is not resolved to the awaiting agent
Named_IgnoresContinue(raw, awaiting_agent) == Strip(raw)

\* RootAgentRouter.route after the abandonment test, up to the permission
\* check: raw is what the routing chain returned
Named(raw, awaiting_agent) ==
    LET agent_name == Strip(raw)
    IN  IF agent_name = "CONTINUE_CURRENT" /\ awaiting_agent # None
        THEN awaiting_agent
        ELSE agent_name

\* mutant of route: a continued agent is not checked again
Resolve_ContinueUnchecked(raw, awaiting_agent, role) ==
    LET agent_name == Named(raw, awaiting_agent)
    IN  IF Strip(raw) = "CONTINUE_CURRENT" /\ awaiting_agent # None
        THEN agent_name
        ELSE IF agent_name # FAQ /\ ~CheckRolePermission(agent_name, role)
        THEN FAQ
        ELSE agent_name

\* RootAgentRouter.route after the abandonment test
Resolve(raw, awaiting_agent, role) ==
    LET agent_name == Named(raw, awaiting_agent)
    IN  IF agent_name # FAQ /\ ~CheckRolePermission(agent_name, role)
        THEN FAQ
        ELSE agent_name

\* whether route takes the CONTINUE_CURRENT branch
Continues(raw, awaiting_agent) ==
    Strip(raw) = "CONTINUE_CURRENT" /\ awaiting_agent # None

\* mutant of the abandonment test: the phrase alone decides
Abandons_AlsoWhenIdle(query, awaiting_agent) == IsAbandonment(query)

\* the abandonment test of route
Abandons(query, awaiting_agent) ==
    IsAbandonment(query) /\ awaiting_agent # None

\* the number of history entries route formats for the routing chain
ContextWindow == 5

\* h[-n:]
LastN(h, n) == SubSeq(h, IF Len(h) > n THEN Len(h) - n + 1 ELSE 1, Len(h))

\* "\n".join(ls)
RECURSIVE JoinLines(_)
JoinLines(ls) == IF Len(ls) = 0 THEN ""
                 ELSE IF Len(ls) = 1 THEN ls[1]
                 ELSE ls[1] \o "\n" \o JoinLines(Tail(ls))

\* f"{msg['role']}: {msg['content']}"
FormatMessage(msg) == msg.role \o ": " \o msg.content

\* mutant of the formatting of the history: every entry is formatted
ConvHistory_Whole(history) ==
    JoinLines([i \in 1..Len(history) |-> FormatMessage(history[i])])

\* conv_history of route: the last entries of the history, one per line
ConvHistory(history) ==
    LET recent == LastN(history, ContextWindow)
    IN  JoinLines([i \in 1..Len(recent) |-> FormatMessage(recent[i])])

\* routing_input of route, as the prompt renders it
RoutingInput(role, awaiting_agent, history, query) ==
    LET conv_history == ConvHistory(history)
    IN  [user_role |-> role,
         current_agent_awaiting_parameters |-> awaiting_agent,
         conversation_history |-> IF conv_history # "" THEN conv_history
                                  ELSE "No previous conversation",
         user_query |-> query]

\* no routing input: the routing chain was not called
NoInput ==
    [user_role |-> "", current_agent_awaiting_parameters |-> "",
     conversation_history |-> "", user_query |-> ""]

---------------------------------------------------------------------------
(* Environment: what the routing chain may return (any string) *)

ClassifierOutputs ==
    AgentIds \cup {"CONTINUE_CURRENT", " learning_path_agent ", "billing_agent"}

---------------------------------------------------------------------------
(* The session and the turn *)

\* The connections the WebSocket server may hold at a time (the members of
\* active_connections)
Conns == {"c1", "c2"}

\* no connection is open
NoConnections == [c \in Conns |-> "closed"]

\* The handler of a connection is closed; new (registered, no message
\* yet); first or handling (inside handle_message, between line 61 and the
\* await of send_message, for its first or a later message); replying (at
\* the await of send_message after a turn); rejecting or rejecting_open (at
\* the await of send_message with the error reply to a message that began
\* no turn, before or after the connection's first turn); open (waiting for
\* the next message).
\* AwaitSend: the handler that ran the turn reaches the await.
AwaitSend(cs) ==
    [c \in DOMAIN cs |-> IF cs[c] \in {"first", "handling"}
                          THEN "replying" ELSE cs[c]]

\* The record `turn` holds, while a turn runs, the entries of the host's
\* own dict that the graph run has not written back (pre_*), and observes
\* what the turn did: how the router decided (via), what the routing chain
\* returned (llm_out, until the agent node has run) and was given (input), the agent named before
\* the permission check (asked), the node that ran, what its validation
\* said, and the calls made of the two capabilities.  Until the graph returns, the host's dict is the one
\* process_message was called with; the nodes work on the graph's state.
NoTurn ==
    [outcome |-> "none", pre_agent |-> None, pre_awaiting |-> None,
     pre_pad |-> EmptyPad, llm_calls |-> 0, llm_out |-> None,
     via |-> "none", asked |-> None, node |-> None,
     complete |-> "n/a", gen_calls |-> 0, input |-> NoInput]

\* the initial state dict of orchestrator.main and of WebSocketHandler;
\* main takes the role from the login prompt, the WebSocket handler fixes it
Init ==
    /\ host \in Hosts
    /\ conns = NoConnections
    /\ user_role \in (IF host = "ws" THEN {"Consultant"} ELSE Roles)
    /\ pc = "idle"
    /\ user_query = ""
    /\ conversation_history = <<>>
    /\ current_agent = None
    /\ awaiting = None
    /\ scratchpad = EmptyPad
    /\ system_response = ""
    /\ error = None
    /\ turn = NoTurn

\* The host reads an utterance and calls process_message, which appends the
\* user message (orchestrator.main's loop, WebSocketHandler.handle_message,
\* process_message up to graph.invoke).
AcceptWithin(u, limit) ==
    /\ pc = "idle"
    /\ Len(conversation_history) + 2 <= limit
    /\ Strip(u) # ""
    /\ host = "cli" => LowerQ(Strip(u)) \notin {"quit", "exit", "bye"}
    /\ user_query' = Strip(u)
    /\ conversation_history' =
            Append(conversation_history, [role |-> "user", content |-> Strip(u)])
    /\ pc' = "router"
    /\ turn' = [NoTurn EXCEPT !.outcome = "running",
                              !.pre_agent = current_agent,
                              !.pre_awaiting = awaiting,
                              !.pre_pad = scratchpad]
    /\ UNCHANGED <<host, user_role, current_agent, awaiting, scratchpad,
                   system_response, error>>

Accept(u) == AcceptWithin(u, MaxHistory)

\* a turn of the session, whichever connection brought the utterance
Submit(u) == Accept(u) /\ UNCHANGED conns

\* An exception leaves process_message and reaches the host.  The host's
\* dict still carries the user message; what the nodes assigned went to the
\* graph's state.  orchestrator.main resets the collection state;
\* WebSocketHandler.handle_message reports and keeps self.session_state,
\* whose scratchpad dict the node may have updated in place (leaked): that
\* depends on whether the graph runtime hands the nodes the same dict
\* object, so both outcomes are possible.
HostOnError(leaked) ==
    /\ pc' = "idle"
    /\ current_agent' = turn.pre_agent
    /\ IF host = "cli"
       THEN awaiting' = None /\ scratchpad' = EmptyPad
       ELSE awaiting' = turn.pre_awaiting
            /\ scratchpad' \in {turn.pre_pad, leaked}
    /\ conns' = AwaitSend(conns)
    /\ UNCHANGED <<host, user_role, user_query, conversation_history,
                   system_response, error>>

\* router_node: the abandonment branch of route returns without a call of
\* the routing chain
RouterAbandon ==
    /\ pc = "router"
    /\ Abandons(user_query, awaiting)
    /\ current_agent' = FAQ
    /\ pc' = "agent"
    /\ turn' = [turn EXCEPT !.via = "abandon"]
    /\ UNCHANGED <<conns, host, user_role, user_query, conversation_history,
                   awaiting, scratchpad, system_response, error>>

\* router_node: route asks the routing chain, which returns raw
RouterNode(raw) ==
    /\ pc = "router"
    /\ ~Abandons(user_query, awaiting)
    /\ current_agent' = Resolve(raw, awaiting, user_role)
    /\ pc' = "agent"
    /\ turn' = [turn EXCEPT !.llm_calls = @ + 1,
                            !.input = RoutingInput(user_role, awaiting,
                                            conversation_history, user_query),
                            !.llm_out = raw,
                            !.via = IF Continues(raw, awaiting)
                                    THEN "continue" ELSE "chain",
                            !.asked = Named(raw, awaiting)]
    /\ UNCHANGED <<conns, host, user_role, user_query, conversation_history,
                   awaiting, scratchpad, system_response, error>>

\* router_node: the routing chain raises
RouterFail ==
    /\ pc = "router"
    /\ ~Abandons(user_query, awaiting)
    /\ HostOnError(scratchpad)
    /\ turn' = [turn EXCEPT !.llm_calls = @ + 1, !.outcome = "failed",
                            !.input = RoutingInput(user_role, awaiting,
                                            conversation_history, user_query)]

\* The two endings of every parameterised node (assignment_review_node,
\* learning_path_node, question_generation_node): ask for the missing
\* parameters and stay awaiting, or answer and drop the collection state.
\* mutants of the two endings: the clarification drops the slots collected;
\* the answer leaves them in place
AwaitParameters_DropsSlots(agent, validation) ==
    /\ system_response' = validation.clarification
    /\ awaiting' = agent
    /\ scratchpad' = EmptyPad

FinishTask_KeepsSlots(text) ==
    /\ system_response' = text
    /\ awaiting' = None
    /\ UNCHANGED scratchpad

\* mutant: a node that asks leaves an agent already awaiting in place
AwaitParameters_KeepsFirst(agent, validation) ==
    /\ system_response' = validation.clarification
    /\ awaiting' = IF awaiting # None THEN awaiting ELSE agent
    /\ scratchpad' = validation.pad

AwaitParameters(agent, validation) ==
    /\ system_response' = validation.clarification
    /\ awaiting' = agent
    /\ scratchpad' = validation.pad

FinishTask(text) ==
    /\ system_response' = text
    /\ awaiting' = None
    /\ scratchpad' = EmptyPad

\* mutant of assignment_review_node: the clarification is written by the
\* generation chain
AssignmentReviewNode_GeneratesClarification(g) ==
    /\ pc = "agent"
    /\ current_agent = ASSIGNMENT
    /\ LET validation == AssignmentValidate(AssignmentExtract(user_query, scratchpad))
       IN  IF ~validation.complete
           THEN /\ AwaitParameters(ASSIGNMENT, validation)
                /\ turn' = [turn EXCEPT !.llm_out = None, !.node = ASSIGNMENT, !.complete = "no",
                                        !.gen_calls = @ + 1]
           ELSE /\ FinishTask(g)
                /\ turn' = [turn EXCEPT !.llm_out = None, !.node = ASSIGNMENT, !.complete = "yes",
                                        !.gen_calls = @ + 1]
    /\ pc' = "deliver"
    /\ UNCHANGED <<conns, host, user_role, user_query, conversation_history,
                   current_agent, error>>

\* assignment_review_node, g being what the generation chain returns if it
\* is called
AssignmentReviewNode(g) ==
    /\ pc = "agent"
    /\ current_agent = ASSIGNMENT
    /\ LET validation == AssignmentValidate(AssignmentExtract(user_query, scratchpad))
       IN  IF ~validation.complete
           THEN /\ AwaitParameters(ASSIGNMENT, validation)
                /\ turn' = [turn EXCEPT !.llm_out = None, !.node = ASSIGNMENT, !.complete = "no"]
           ELSE /\ FinishTask(g)
                /\ turn' = [turn EXCEPT !.llm_out = None, !.node = ASSIGNMENT, !.complete = "yes",
                                        !.gen_calls = @ + 1]
    /\ pc' = "deliver"
    /\ UNCHANGED <<conns, host, user_role, user_query, conversation_history,
                   current_agent, error>>

\* assignment_review_node: the generation chain raises
AssignmentReviewFail ==
    /\ pc = "agent"
    /\ current_agent = ASSIGNMENT
    /\ LET validation == AssignmentValidate(AssignmentExtract(user_query, scratchpad))
       IN  /\ validation.complete
           /\ HostOnError(validation.pad)
    /\ turn' = [turn EXCEPT !.llm_out = None, !.node = ASSIGNMENT, !.complete = "yes",
                            !.gen_calls = @ + 1, !.outcome = "failed"]

\* learning_path_node
LearningPathNode(g) ==
    /\ pc = "agent"
    /\ current_agent = LEARNING
    /\ LET validation == LearningValidate(LearningExtract(user_query, scratchpad))
       IN  IF ~validation.complete
           THEN /\ AwaitParameters(LEARNING, validation)
                /\ turn' = [turn EXCEPT !.llm_out = None, !.node = LEARNING, !.complete = "no"]
           ELSE /\ FinishTask(g)
                /\ turn' = [turn EXCEPT !.llm_out = None, !.node = LEARNING, !.complete = "yes",
                                        !.gen_calls = @ + 1]
    /\ pc' = "deliver"
    /\ UNCHANGED <<conns, host, user_role, user_query, conversation_history,
                   current_agent, error>>

\* learning_path_node: the generation chain raises
LearningPathFail ==
    /\ pc = "agent"
    /\ current_agent = LEARNING
    /\ LET validation == LearningValidate(LearningExtract(user_query, scratchpad))
       IN  /\ validation.complete
           /\ HostOnError(validation.pad)
    /\ turn' = [turn EXCEPT !.llm_out = None, !.node = LEARNING, !.complete = "yes",
                            !.gen_calls = @ + 1, !.outcome = "failed"]

\* question_generation_node
QuestionGenerationNode(g) ==
    /\ pc = "agent"
    /\ current_agent = QUESTION
    /\ IF ~CheckPermissions(user_role)
       THEN /\ FinishTask(QuestionDenial)
            /\ turn' = [turn EXCEPT !.llm_out = None, !.node = QUESTION]
       ELSE LET validation == QuestionValidate(QuestionExtract(user_query, scratchpad))
            IN  IF ~validation.complete
                THEN /\ AwaitParameters(QUESTION, validation)
                     /\ turn' = [turn EXCEPT !.llm_out = None, !.node = QUESTION, !.complete = "no"]
                ELSE /\ FinishTask(QuestionResponse(validation.pad, g))
                     /\ turn' = [turn EXCEPT !.llm_out = None, !.node = QUESTION, !.complete = "yes",
                                             !.gen_calls = @ + 1]
    /\ pc' = "deliver"
    /\ UNCHANGED <<conns, host, user_role, user_query, conversation_history,
                   current_agent, error>>

\* question_generation_node: the generation chain raises
QuestionGenerationFail ==
    /\ pc = "agent"
    /\ current_agent = QUESTION
    /\ CheckPermissions(user_role)
    /\ LET validation == QuestionValidate(QuestionExtract(user_query, scratchpad))
       IN  /\ validation.complete
           /\ HostOnError(validation.pad)
    /\ turn' = [turn EXCEPT !.llm_out = None, !.node = QUESTION, !.complete = "yes",
                            !.gen_calls = @ + 1, !.outcome = "failed"]

\* mutant of faq_fallback_node: the collection state is left as it was
FaqFallbackNode_KeepsCollection(g) ==
    /\ pc = "agent"
    /\ current_agent = FAQ
    /\ system_response' = FaqResponse(user_query, g)
    /\ turn' = [turn EXCEPT !.llm_out = None, !.node = FAQ,
                            !.gen_calls = IF FaqCallsLLM(user_query) THEN @ + 1 ELSE @]
    /\ pc' = "deliver"
    /\ UNCHANGED <<conns, host, user_role, user_query, conversation_history,
                   current_agent, awaiting, scratchpad, error>>

\* faq_fallback_node
\* mutant of the graph: the fallback node has an edge back to the router
FaqFallbackNode_HandsBack(g) ==
    /\ pc = "agent"
    /\ current_agent = FAQ
    /\ system_response' = FaqResponse(user_query, g)
    /\ awaiting' = None
    /\ scratchpad' = EmptyPad
    /\ turn' = [turn EXCEPT !.llm_out = None, !.node = FAQ,
                            !.gen_calls = IF FaqCallsLLM(user_query) THEN @ + 1 ELSE @]
    /\ pc' = "router"
    /\ UNCHANGED <<conns, host, user_role, user_query, conversation_history,
                   current_agent, error>>

FaqFallbackNode(g) ==
    /\ pc = "agent"
    /\ current_agent = FAQ
    /\ system_response' = FaqResponse(user_query, g)
    /\ awaiting' = None
    /\ scratchpad' = EmptyPad
    /\ turn' = [turn EXCEPT !.llm_out = None, !.node = FAQ,
                            !.gen_calls = IF FaqCallsLLM(user_query) THEN @ + 1 ELSE @]
    /\ pc' = "deliver"
    /\ UNCHANGED <<conns, host, user_role, user_query, conversation_history,
                   current_agent, error>>

\* faq_fallback_node: the generation chain raises
FaqFallbackFail ==
    /\ pc = "agent"
    /\ current_agent = FAQ
    /\ FaqCallsLLM(user_query)
    /\ HostOnError(scratchpad)
    /\ turn' = [turn EXCEPT !.llm_out = None, !.node = FAQ, !.gen_calls = @ + 1, !.outcome = "failed"]

\* process_message after graph.invoke: the assistant message is appended
\* and the host keeps the result as the session
Deliver ==
    /\ pc = "deliver"
    /\ conversation_history' =
            Append(conversation_history,
                   [role |-> "assistant", content |-> system_response])
    /\ pc' = "idle"
    /\ turn' = [turn EXCEPT !.outcome = "ok"]
    /\ conns' = AwaitSend(conns)
    /\ UNCHANGED <<host, user_role, user_query, current_agent, awaiting,
                   scratchpad, system_response, error>>

\* Between two turns the owner of the session dict gives it another role
\* (user_role is a plain entry of the dict handed to process_message).
ChangeRole(r) ==
    /\ pc = "idle"
    /\ r # user_role
    /\ user_role' = r
    /\ turn' = NoTurn
    /\ UNCHANGED <<conns, host, pc, user_query, conversation_history, current_agent,
                   awaiting, scratchpad, system_response, error>>

Next ==
    \/ \E u \in Utterances : Submit(u)
    \/ RouterAbandon
    \/ \E raw \in ClassifierOutputs : RouterNode(raw)
    \/ RouterFail
    \/ \E g \in GenTexts : AssignmentReviewNode(g)
    \/ AssignmentReviewFail
    \/ \E g \in GenTexts : LearningPathNode(g)
    \/ LearningPathFail
    \/ \E g \in GenTexts : QuestionGenerationNode(g)
    \/ QuestionGenerationFail
    \/ \E g \in GenTexts : FaqFallbackNode(g)
    \/ FaqFallbackFail
    \/ Deliver

Spec == Init /\ [][Next]_vars

\* the same session when its role may change between turns
NextRoleChange == Next \/ \E r \in Roles : ChangeRole(r)

SpecRoleChange == Init /\ [][NextRoleChange]_vars

---------------------------------------------------------------------------
(* What the properties below speak of *)

ParamAgents == {ASSIGNMENT, LEARNING, QUESTION}

\* the registry's answer, read off the table: role r is in H's allowed
\* roles, or the table gives H the All sentinel
RegistryAllows(H, r) ==
    /\ H \in AgentIds
    /\ \E i \in 1..Len(AGENTS[H].roles) : AGENTS[H].roles[i] \in {"All", r}

\* extract then validate, as each parameterised node runs them
Pipeline(H, query, pad) ==
    CASE H = ASSIGNMENT -> AssignmentValidate(AssignmentExtract(query, pad))
      [] H = LEARNING -> LearningValidate(LearningExtract(query, pad))
      [] H = QUESTION -> QuestionValidate(QuestionExtract(query, pad))

\* the text of the respond stage of H, g being what the generation chain
\* returned
Respond(H, query, pad, g) ==
    CASE H = QUESTION -> QuestionResponse(pad, g)
      [] H = FAQ -> FaqResponse(query, g)
      [] OTHER -> g

\* the utterance of the turn holds one of the abandonment phrases
AbandonmentPhrase ==
    \E w \in {"never mind", "cancel", "forget it", "stop", "quit"} :
        Contains(LowerQ(user_query), w)

\* the turn has run to its end: the response is in the history and the
\* host holds the result
TurnEnded == pc = "idle" /\ turn.outcome = "ok"

\* the turn was cut short by a capability call that raised
TurnFailed == pc = "idle" /\ turn.outcome = "failed"

LastMessage == conversation_history[Len(conversation_history)]

---------------------------------------------------------------------------
(* C1..C10 *)

\* C1: permission gate.  Whenever the router has decided (whatever the
\* routing chain returned, whatever was awaiting, whatever the scratchpad
\* holds, also after a change of role), the agent it returned is not a
\* handler whose registry roles neither hold All nor the session's role.
C1_PermissionGate ==
    pc = "agent" =>
        \A H \in AgentIds \ {FAQ} :
            ~RegistryAllows(H, user_role) => current_agent # H

\* the gate acted on a continuation: H was awaiting, the role is no longer
\* allowed for it, the chain said CONTINUE_CURRENT
C1_Witness ==
    /\ pc = "agent"
    /\ turn.via = "continue"
    /\ turn.asked = turn.pre_awaiting
    /\ ~RegistryAllows(turn.asked, user_role)
    /\ current_agent = FAQ

\* C2: abandonment.  On a turn that starts with a handler awaiting and whose
\* utterance holds an abandonment phrase, the router returns the fallback
\* handler, and when the turn has run to its end that handler ran,
\* awaiting is None and the scratchpad is empty.
C2_Abandonment ==
    /\ (pc = "agent" /\ turn.pre_awaiting # None /\ AbandonmentPhrase)
            => current_agent = FAQ
    /\ (TurnEnded /\ turn.pre_awaiting # None /\ AbandonmentPhrase)
            => (turn.node = FAQ /\ awaiting = None /\ scratchpad = EmptyPad)

C2_Witness ==
    /\ TurnEnded
    /\ user_query = "never mind"
    /\ turn.pre_awaiting = LEARNING
    /\ turn.pre_pad # EmptyPad
    /\ awaiting = None
    /\ scratchpad = EmptyPad

\* C3: incomplete outcome.  When a parameterised node ran and validation
\* after extraction is incomplete, the turn ends with the clarification as
\* the response (in the state and as the assistant message), the node's id
\* awaiting, and the scratchpad holding every slot it held before the turn
\* and every slot this turn extracted.
C3_IncompleteTurn ==
    (TurnEnded /\ turn.node \in ParamAgents
        /\ ~Pipeline(turn.node, user_query, turn.pre_pad).complete)
    => LET v == Pipeline(turn.node, user_query, turn.pre_pad)
       IN  /\ system_response = v.clarification
           /\ LastMessage = [role |-> "assistant", content |-> v.clarification]
           /\ awaiting = turn.node
           /\ \A k \in DOMAIN turn.pre_pad : k \in DOMAIN scratchpad
           /\ scratchpad = v.pad

\* a second clarification in a row: a slot of the earlier turn is still held
C3_Witness ==
    /\ TurnEnded
    /\ turn.node = LEARNING
    /\ turn.pre_awaiting = LEARNING
    /\ awaiting = LEARNING
    /\ "topic" \in DOMAIN turn.pre_pad
    /\ "topic" \in DOMAIN scratchpad
    /\ "skill_level" \notin DOMAIN scratchpad

\* C4: complete outcome.  When a node ran whose validation is complete (the
\* fallback node has nothing to validate), the turn ends with the respond
\* stage's text as the response, awaiting None and the scratchpad empty.
C4_CompleteTurn ==
    (TurnEnded
        /\ \/ turn.node = FAQ
           \/ /\ turn.node \in ParamAgents
              /\ Pipeline(turn.node, user_query, turn.pre_pad).complete)
    => /\ awaiting = None
       /\ scratchpad = EmptyPad
       /\ \E g \in GenTexts :
            system_response =
                Respond(turn.node, user_query,
                        IF turn.node = FAQ THEN EmptyPad
                        ELSE Pipeline(turn.node, user_query, turn.pre_pad).pad, g)
       /\ LastMessage = [role |-> "assistant", content |-> system_response]

\* the node completed a collection an earlier turn had left awaiting
C4_Witness ==
    /\ TurnEnded
    /\ turn.node = QUESTION
    /\ turn.pre_awaiting = QUESTION
    /\ turn.complete = "yes"
    /\ "topic" \in DOMAIN turn.pre_pad
    /\ awaiting = None
    /\ scratchpad = EmptyPad

\* C5: between turns, a scratchpad that is not empty has a handler awaiting.
C5_ScratchpadOnlyWhileAwaiting ==
    pc = "idle" => (scratchpad # EmptyPad => awaiting # None)

\* C6: routing is total and closed.  For every output of the routing chain
\* the router has a result; the result is one of the four registry ids; an
\* output that is no registry id, and CONTINUE_CURRENT with nothing
\* awaiting, give the fallback handler.
C6_RoutingTotal ==
    /\ pc = "router" =>
            \/ ENABLED RouterAbandon
            \/ \A raw \in ClassifierOutputs : ENABLED RouterNode(raw)
    /\ pc = "agent" => current_agent \in AgentIds
    /\ (pc = "agent" /\ turn.llm_out # None
            /\ Strip(turn.llm_out) \notin AgentIds
            /\ ~(Strip(turn.llm_out) = "CONTINUE_CURRENT" /\ turn.pre_awaiting # None))
        => current_agent = FAQ

C6_Witness ==
    /\ pc = "agent"
    /\ turn.llm_out = "CONTINUE_CURRENT"
    /\ turn.pre_awaiting = None
    /\ current_agent = FAQ

\* C7: continuation.  With H awaiting, no abandonment, CONTINUE_CURRENT from
\* the routing chain and a role the registry allows for H, the router
\* returns H, H's node runs, and it extracts into and validates the
\* scratchpad the previous turn left.
C7_Continuation ==
    /\ (pc = "agent" /\ turn.llm_out # None
            /\ Strip(turn.llm_out) = "CONTINUE_CURRENT"
            /\ turn.pre_awaiting # None
            /\ RegistryAllows(turn.pre_awaiting, user_role))
        => current_agent = turn.pre_awaiting
    /\ (pc = "deliver" /\ turn.via = "continue"
            /\ RegistryAllows(turn.pre_awaiting, user_role))
        => /\ turn.node = turn.pre_awaiting
           /\ LET v == Pipeline(turn.node, user_query, turn.pre_pad)
              IN  IF v.complete
                  THEN /\ awaiting = None
                       /\ \E g \in GenTexts :
                            system_response = Respond(turn.node, user_query, v.pad, g)
                  ELSE /\ awaiting = turn.node
                       /\ scratchpad = v.pad
                       /\ system_response = v.clarification

\* the continued node completed with a slot of the earlier turn
C7_Witness ==
    /\ pc = "deliver"
    /\ turn.via = "continue"
    /\ turn.node = QUESTION
    /\ user_query = "medium"
    /\ "topic" \in DOMAIN turn.pre_pad
    /\ awaiting = None

\* C8: permission is checked again on every turn.  With H awaiting and a
\* role the registry does not allow for H, a turn on which the routing
\* chain returns CONTINUE_CURRENT or H is routed to the fallback handler,
\* and when it has run to its end awaiting is None and the scratchpad empty.
C8_PermissionRevalidated ==
    LET H == turn.pre_awaiting
    IN  /\ (pc = "agent" /\ H # None /\ ~RegistryAllows(H, user_role)
                /\ turn.llm_out # None
                /\ Strip(turn.llm_out) \in {"CONTINUE_CURRENT", H})
            => current_agent = FAQ
        /\ (TurnEnded /\ H # None /\ ~RegistryAllows(H, user_role)
                /\ turn.asked = H)
            => (turn.node = FAQ /\ awaiting = None /\ scratchpad = EmptyPad)

C8_Witness ==
    /\ TurnEnded
    /\ turn.pre_awaiting = LEARNING
    /\ turn.asked = LEARNING
    /\ turn.via = "continue"
    /\ user_role = "Admin"
    /\ turn.pre_pad # EmptyPad
    /\ awaiting = None
    /\ scratchpad = EmptyPad

\* C9: a denied handler never remains awaiting.  When the permission check
\* replaced the agent the router had settled on, the turn, once run to its
\* end, was handled by the fallback node and leaves awaiting None and the
\* scratchpad empty.
C9_DeniedNeverAwaiting ==
    (TurnEnded /\ turn.asked # None /\ turn.asked # FAQ
        /\ ~RegistryAllows(turn.asked, user_role))
    => (turn.node = FAQ /\ awaiting = None /\ scratchpad = EmptyPad)

C9_Witness ==
    /\ TurnEnded
    /\ turn.asked = QUESTION
    /\ user_role = "Consultant"
    /\ turn.pre_awaiting = ASSIGNMENT
    /\ awaiting = None
    /\ scratchpad = EmptyPad

\* C10: state is preserved on external failure.  After a turn on which the
\* routing chain or a generation chain raised, awaiting and the scratchpad
\* are what they were when the turn began.
C10_StatePreservedOnFailure ==
    TurnFailed => (awaiting = turn.pre_awaiting /\ scratchpad = turn.pre_pad)

---------------------------------------------------------------------------
(* C11..C14 *)

\* C11: an external failure is an error of the turn.  After a turn on which
\* the routing chain or a generation chain raised, the session's error
\* field is set and the turn has left a response: the last entry of the
\* history is the assistant's.
C11_FailureIsTurnLevelError ==
    TurnFailed => (error # None /\ LastMessage.role = "assistant")

\* C12: history discipline.  Between turns the history has an even number
\* of entries, user and assistant in turn, whatever way the turns ended.
C12_HistoryDiscipline ==
    pc = "idle" =>
        /\ Len(conversation_history) % 2 = 0
        /\ \A i \in 1..Len(conversation_history) :
                conversation_history[i].role =
                    IF i % 2 = 1 THEN "user" ELSE "assistant"

\* C13: the scratchpad is scoped to the handler being filled.  At the end
\* of a turn that leaves a handler awaiting, every slot of the scratchpad
\* is a registry parameter of that handler; and a turn dispatched to a
\* parameterised handler other than the one that was awaiting validates,
\* and leaves, what that handler extracts from this turn's utterance alone.
C13_ScratchpadScoped ==
    /\ (TurnEnded /\ awaiting # None)
        => \A k \in DOMAIN scratchpad : InSeq(k, AGENTS[awaiting].parameters)
    /\ (TurnEnded /\ turn.node \in ParamAgents
            /\ turn.pre_awaiting # None /\ turn.pre_awaiting # turn.node)
        => LET v == Pipeline(turn.node, user_query, EmptyPad)
           IN  /\ turn.complete = (IF v.complete THEN "yes" ELSE "no")
               /\ awaiting = turn.node => scratchpad = v.pad

\* C14: single active task.  awaiting is None or one parameterised handler;
\* a turn that began with H1 awaiting, was dispatched to another handler H2
\* and ran to its end leaves awaiting None or H2.
C14_SingleActiveTask ==
    /\ awaiting \in ParamAgents \cup {None}
    /\ (TurnEnded /\ turn.pre_awaiting # None /\ turn.node # None
            /\ turn.node # turn.pre_awaiting)
        => awaiting \in {None, turn.node}

\* learning path was awaiting, the turn went to assignment review, which
\* asks in its turn
C14_Witness ==
    /\ TurnEnded
    /\ turn.pre_awaiting = LEARNING
    /\ turn.node = ASSIGNMENT
    /\ awaiting = ASSIGNMENT

---------------------------------------------------------------------------
(* The stages of a handler, applied to any utterance and any scratchpad *)

\* extract_parameters and validate_parameters of agent H
Extract(H, query, pad) ==
    CASE H = ASSIGNMENT -> AssignmentExtract(query, pad)
      [] H = LEARNING -> LearningExtract(query, pad)
      [] H = QUESTION -> QuestionExtract(query, pad)

Validate(H, pad) ==
    CASE H = ASSIGNMENT -> AssignmentValidate(pad)
      [] H = LEARNING -> LearningValidate(pad)
      [] H = QUESTION -> QuestionValidate(pad)

\* utterances: those of the sessions above, and three more that reach the
\* word scan of the assignment agent, a count of 0 and the "new to" test
StageUtterances ==
    Utterances \cup { "Show my assignment Linear Regression report",
                      "Generate 0 hard SQL questions",
                      "I am new to data science" }

\* scratchpads: any subset of the keys the three extract_parameters write
\* (the dict is shared by the agents), with values they write; "" and -1
\* stand here for a key that is not in the dict
Opt(d, k, v) == IF v = "" THEN d ELSE Put(d, k, v)
OptCount(d, n) == IF n < 0 THEN d ELSE Put(d, "question_count", n)
StagePads ==
    { OptCount(Opt(Opt(Opt(Opt(EmptyPad, "assignment_title", a), "topic", t),
                       "skill_level", l), "difficulty", d), c) :
        a \in {"", "Python Basics"},
        t \in {"", "Python", "Machine Learning"},
        l \in {"", "Beginner"},
        d \in {"", "Hard"},
        c \in {-1, 3, 5} }

\* In this specification `turn` observes the stages: the scratchpad drawn
\* (pre_pad), the scratchpad after the first extraction (once), the
\* scratchpad validate_parameters was given (input) and what it returned.
NoStage ==
    [pre_pad |-> EmptyPad, once |-> EmptyPad, input |-> EmptyPad,
     validation |-> [complete |-> FALSE, missing |-> <<>>,
                     clarification |-> None, pad |-> EmptyPad]]

InitStages ==
    /\ host = "cli"
    /\ conns = NoConnections
    /\ user_role = "Admin"
    /\ pc = "stage"
    /\ user_query \in StageUtterances
    /\ conversation_history = <<>>
    /\ current_agent \in ParamAgents
    /\ awaiting = None
    /\ scratchpad \in StagePads
    /\ system_response = ""
    /\ error = None
    /\ turn = [NoStage EXCEPT !.pre_pad = scratchpad]

\* agent.extract_parameters(state), a first and a second time
ExtractStage ==
    /\ pc \in {"stage", "extracted"}
    /\ scratchpad' = Extract(current_agent, user_query, scratchpad)
    /\ pc' = IF pc = "stage" THEN "extracted" ELSE "extracted twice"
    /\ turn' = IF pc = "stage" THEN [turn EXCEPT !.once = scratchpad'] ELSE turn
    /\ UNCHANGED <<conns, host, user_role, user_query, conversation_history,
                   current_agent, awaiting, system_response, error>>

\* agent.validate_parameters(state), on the scratchpad drawn or on the
\* scratchpad after extraction
ValidateStage ==
    /\ pc \in {"stage", "extracted"}
    /\ LET validation == Validate(current_agent, scratchpad)
       IN  /\ scratchpad' = validation.pad
           /\ turn' = [turn EXCEPT !.input = scratchpad, !.validation = validation]
    /\ pc' = "validated"
    /\ UNCHANGED <<conns, host, user_role, user_query, conversation_history,
                   current_agent, awaiting, system_response, error>>

NextStages == ExtractStage \/ ValidateStage

SpecStages == InitStages /\ [][NextStages]_vars

\* the registry parameters of H that pad does not satisfy, in registry order
Unsatisfied(H, pad) ==
    SelectSeq(AGENTS[H].parameters, LAMBDA p : ~Truthy(pad, p))

\* the line by which a clarification asks for parameter p of agent H
ParamQuestion(H, p) ==
    CASE H = LEARNING /\ p = "topic" -> "- What topic would you like to learn?"
      [] H = LEARNING /\ p = "skill_level" ->
            "- What is your current skill level? (Beginner/Intermediate/Advanced)"
      [] H = QUESTION /\ p = "topic" -> "- What topic should the questions cover?"
      [] H = QUESTION /\ p = "difficulty" -> "- What difficulty level? (Easy/Medium/Hard)"
      [] OTHER -> AssignmentClarification

---------------------------------------------------------------------------
(* C15..C20 *)

\* C15: validation result.  For assignment review and learning path (no
\* defaults): whenever some registry parameter is not satisfied by the
\* scratchpad, validate_parameters returns complete = False and missing is
\* the list of the unsatisfied registry parameters, in registry order.
C15_ValidationResult ==
    (pc = "validated" /\ current_agent \in {ASSIGNMENT, LEARNING})
    => LET unsatisfied == Unsatisfied(current_agent, turn.input)
       IN  unsatisfied # <<>> =>
                /\ ~turn.validation.complete
                /\ turn.validation.missing = unsatisfied

\* C16: extraction is idempotent.  Extracting a second time with the same
\* utterance leaves the scratchpad of the first extraction.
C16_ExtractIdempotent ==
    pc = "extracted twice" => scratchpad = turn.once

\* the extraction changed the scratchpad drawn, and was applied twice
C16_Witness ==
    /\ pc = "extracted twice"
    /\ current_agent = QUESTION
    /\ user_query = "Generate 5 Python questions"
    /\ "difficulty" \in DOMAIN turn.pre_pad
    /\ turn.pre_pad # turn.once
    /\ scratchpad["question_count"] = 5

\* C17: extraction is monotone.  Every slot of the scratchpad before an
\* extraction is a slot after it, and it has its old value when the
\* utterance supplies no value for it (extraction from the utterance alone
\* does not set it).
C17_ExtractMonotone ==
    pc = "extracted" =>
        \A k \in DOMAIN turn.pre_pad :
            /\ k \in DOMAIN scratchpad
            /\ k \notin DOMAIN Extract(current_agent, user_query, EmptyPad)
                    => scratchpad[k] = turn.pre_pad[k]

\* an utterance that supplies the difficulty leaves the topic of an earlier
\* turn
C17_Witness ==
    /\ pc = "extracted"
    /\ current_agent = QUESTION
    /\ user_query = "medium"
    /\ "topic" \in DOMAIN turn.pre_pad
    /\ "difficulty" \notin DOMAIN turn.pre_pad
    /\ scratchpad["difficulty"] = "Medium"
    /\ scratchpad["topic"] = turn.pre_pad["topic"]

\* C18: defaulted count.  In question generation a count that is not in
\* the scratchpad is 5 after validation, question_count is never in
\* missing, and the validation is complete exactly when topic and
\* difficulty are satisfied.
C18_DefaultedCount ==
    (pc = "validated" /\ current_agent = QUESTION)
    => LET v == turn.validation
       IN  /\ "question_count" \notin DOMAIN turn.input
                => ("question_count" \in DOMAIN v.pad
                        /\ v.pad["question_count"] = 5)
           /\ ~InSeq("question_count", v.missing)
           /\ v.complete <=> (Truthy(turn.input, "topic")
                                /\ Truthy(turn.input, "difficulty"))

C18_Witness ==
    /\ pc = "validated"
    /\ current_agent = QUESTION
    /\ "question_count" \notin DOMAIN turn.input
    /\ Truthy(turn.input, "topic")
    /\ Truthy(turn.input, "difficulty")
    /\ turn.validation.complete
    /\ scratchpad["question_count"] = 5

C20_NoGenerationWhileClarifying ==
    /\ (TurnEnded /\ awaiting \in ParamAgents) => turn.gen_calls = 0
    /\ (pc = "deliver" /\ turn.node \in ParamAgents /\ turn.gen_calls > 0)
            => turn.complete = "yes"

\* a clarification of a continued collection, no generation call made
C20_Witness ==
    /\ TurnEnded
    /\ awaiting = ASSIGNMENT
    /\ turn.node = ASSIGNMENT
    /\ turn.complete = "no"
    /\ turn.llm_calls = 1
    /\ turn.gen_calls = 0

---------------------------------------------------------------------------
(* C21, C23..C26 *)

\* C21: the fallback handler is never awaiting.  In every state awaiting is
\* not the fallback handler's id, and a turn the fallback node handled to
\* its end leaves awaiting None and the scratchpad empty.
C21_FallbackNeverAwaiting ==
    /\ awaiting # FAQ
    /\ (TurnEnded /\ turn.node = FAQ)
            => (awaiting = None /\ scratchpad = EmptyPad)

\* the routing chain itself chose the fallback while a collection was open
C21_Witness ==
    /\ TurnEnded
    /\ turn.node = FAQ
    /\ turn.via = "chain"
    /\ turn.asked = FAQ
    /\ turn.pre_awaiting = ASSIGNMENT
    /\ awaiting = None
    /\ scratchpad = EmptyPad

\* C23: scenarios A then B.  In a fresh Consultant session the utterance
\* "How did I do on my Python assignment?", sent to assignment review, ends
\* with the clarification and assignment review awaiting; "Python Basics"
\* as the next utterance, continued, gives assignment_title "Python
\* Basics", a complete validation, one generated response, awaiting None
\* and an empty scratchpad.
C23_ScenarioAB ==
    LET A == "How did I do on my Python assignment?"
        h == conversation_history
    IN  /\ (TurnEnded /\ user_role = "Consultant" /\ Len(h) = 2
                /\ user_query = A /\ turn.asked = ASSIGNMENT)
            => /\ turn.node = ASSIGNMENT
               /\ system_response = AssignmentClarification
               /\ LastMessage = [role |-> "assistant",
                                 content |-> AssignmentClarification]
               /\ awaiting = ASSIGNMENT
        /\ (TurnEnded /\ user_role = "Consultant" /\ Len(h) = 4
                /\ h[1].content = A /\ h[2].content = AssignmentClarification
                /\ user_query = "Python Basics" /\ turn.via = "continue")
            => /\ turn.node = ASSIGNMENT
               /\ Get(Extract(ASSIGNMENT, user_query, turn.pre_pad),
                      "assignment_title", None) = "Python Basics"
               /\ turn.complete = "yes"
               /\ turn.gen_calls = 1
               /\ system_response \in GenTexts
               /\ awaiting = None
               /\ scratchpad = EmptyPad

C23_Witness ==
    /\ TurnEnded
    /\ user_role = "Consultant"
    /\ Len(conversation_history) = 4
    /\ conversation_history[1].content = "How did I do on my Python assignment?"
    /\ conversation_history[2].content = AssignmentClarification
    /\ user_query = "Python Basics"
    /\ turn.via = "continue"
    /\ turn.complete = "yes"
    /\ awaiting = None

\* C24: scenario C.  For a Consultant and "Generate 5 Python questions",
\* when the routing chain names question generation, the fallback node
\* handles the turn, no handler is awaiting after it, and the response is a
\* role-denial message (the program has one such text, that of the
\* question generation node).
C24_ScenarioC ==
    (TurnEnded /\ user_role = "Consultant"
        /\ user_query = "Generate 5 Python questions"
        /\ turn.asked = QUESTION)
    => /\ turn.node = FAQ
       /\ awaiting = None
       /\ system_response = QuestionDenial

\* C25: scenario D.  For an Admin and "Generate 5 Python questions" sent to
\* question generation with an empty scratchpad: topic Python and count 5
\* are extracted, missing is difficulty alone, the clarification asks for
\* the difficulty only and question generation is awaiting.
C25_ScenarioD ==
    (TurnEnded /\ user_role = "Admin"
        /\ user_query = "Generate 5 Python questions"
        /\ turn.asked = QUESTION /\ turn.pre_pad = EmptyPad)
    => /\ turn.node = QUESTION
       /\ Extract(QUESTION, user_query, EmptyPad)
                = [topic |-> "Python", question_count |-> 5]
       /\ Validate(QUESTION, Extract(QUESTION, user_query, EmptyPad)).missing
                = <<"difficulty">>
       /\ system_response =
            "To generate questions, I need:\n- What difficulty level? (Easy/Medium/Hard)"
       /\ awaiting = QUESTION
       /\ scratchpad = [topic |-> "Python", question_count |-> 5]

C25_Witness ==
    /\ TurnEnded
    /\ user_role = "Admin"
    /\ user_query = "Generate 5 Python questions"
    /\ turn.node = QUESTION
    /\ turn.pre_pad = EmptyPad
    /\ turn.complete = "no"
    /\ awaiting = QUESTION

\* C26: abandonment precedes classification.  On a turn that began with a
\* handler awaiting and whose utterance holds an abandonment phrase, the
\* routing chain is not called (it can neither return nor raise) and the
\* fallback is the agent; on every other turn the routing chain has been
\* called once when the router is done.
C26_AbandonmentBeforeClassification ==
    LET abandoning == turn.pre_awaiting # None /\ AbandonmentPhrase
    IN  /\ (pc = "router" /\ abandoning)
                => /\ \A raw \in ClassifierOutputs : ~ENABLED RouterNode(raw)
                   /\ ~ENABLED RouterFail
        /\ (pc \in {"agent", "deliver"} /\ abandoning)
                => (turn.llm_calls = 0 /\ current_agent = FAQ)
        /\ (pc \in {"agent", "deliver"} /\ ~abandoning)
                => turn.llm_calls = 1

\* "stop" while assignment review is awaiting: no call of the routing chain
C26_Witness ==
    /\ pc = "agent"
    /\ user_query = "stop"
    /\ turn.pre_awaiting = ASSIGNMENT
    /\ turn.via = "abandon"
    /\ turn.llm_calls = 0
    /\ current_agent = FAQ

---------------------------------------------------------------------------
(* The fallback node and the question generation node, entered with any
   state *)

\* utterances that match several, one or none of the fallback's three
\* lists, and two that question generation extracts from
NodeUtterances ==
    { "Hi, thanks for the help with my password",
      "Thanks, how do I contact support?",
      "I forgot my password",
      "I want to learn machine learning",
      "Tell me a joke",
      "Generate 5 Python questions",
      "medium" }

\* scratchpads on entry
NodePads ==
    { EmptyPad,
      [topic |-> "Python"],
      [topic |-> "Python", question_count |-> 5],
      [assignment_title |-> "Python Basics"] }

\* the graph has dispatched to the node: process_message has appended the
\* user message, router_node has set current_agent
InitNodes ==
    /\ host \in Hosts
    /\ conns = NoConnections
    /\ user_role \in (IF host = "ws" THEN {"Consultant"} ELSE Roles)
    /\ pc = "agent"
    /\ user_query \in NodeUtterances
    /\ conversation_history = <<[role |-> "user", content |-> user_query]>>
    /\ current_agent \in {QUESTION, FAQ}
    /\ awaiting \in ParamAgents \cup {None}
    /\ scratchpad \in NodePads
    /\ system_response = ""
    /\ error = None
    /\ turn = [NoTurn EXCEPT !.outcome = "running",
                             !.pre_awaiting = awaiting,
                             !.pre_pad = scratchpad,
                             !.llm_calls = 1,
                             !.via = "chain",
                             !.asked = current_agent]

NextNodes ==
    \/ \E g \in GenTexts : QuestionGenerationNode(g)
    \/ QuestionGenerationFail
    \/ \E g \in GenTexts : FaqFallbackNode(g)
    \/ FaqFallbackFail
    \/ Deliver

SpecNodes == InitNodes /\ [][NextNodes]_vars

---------------------------------------------------------------------------
(* C22, C29 *)

\* C22: the cascade of the fallback.  The response is the greeting text if
\* the utterance matches a greeting; else the thanks text if it matches a
\* word of thanks; else the answer of the FAQ table if an entry matches;
\* and the generation chain is called exactly when none of the three
\* matches.
C22_FallbackCascade ==
    LET greeting == HandleGreeting(user_query)
        gratitude == HandleThanks(user_query)
        answer == SearchFaq(user_query)
    IN  /\ (pc = "deliver" /\ turn.node = FAQ)
            => /\ greeting => system_response = GreetingText
               /\ (~greeting /\ gratitude) => system_response = ThanksText
               /\ (~greeting /\ ~gratitude /\ answer # None)
                        => system_response = answer
               /\ (~greeting /\ ~gratitude /\ answer = None)
                        => system_response \in GenTexts
               /\ turn.gen_calls = 1
                        <=> (~greeting /\ ~gratitude /\ answer = None)
               /\ turn.gen_calls \in {0, 1}
        /\ (TurnFailed /\ turn.node = FAQ)
            => (~greeting /\ ~gratitude /\ answer = None)

\* an utterance with a word of thanks and a key word of the FAQ table
C22_Witness ==
    /\ pc = "deliver"
    /\ turn.node = FAQ
    /\ ~HandleGreeting(user_query)
    /\ HandleThanks(user_query)
    /\ SearchFaq(user_query) # None
    /\ system_response = ThanksText
    /\ turn.gen_calls = 0

\* C29: the denial inside question generation.  Entered with a role other
\* than Admin, the node answers with its denial text, runs neither
\* extraction nor validation nor generation, and leaves awaiting None and
\* the scratchpad empty.
C29_HandlerInternalDenial ==
    /\ (TurnFailed /\ turn.node = QUESTION) => user_role = "Admin"
    /\ (pc = "deliver" /\ turn.node = QUESTION /\ user_role # "Admin")
            => /\ system_response = QuestionDenial
               /\ turn.complete = "n/a"
               /\ turn.gen_calls = 0
               /\ awaiting = None
               /\ scratchpad = EmptyPad

C29_Witness ==
    /\ pc = "deliver"
    /\ turn.node = QUESTION
    /\ user_role = "SME"
    /\ turn.pre_awaiting = QUESTION
    /\ turn.pre_pad # EmptyPad
    /\ system_response = QuestionDenial
    /\ awaiting = None
    /\ scratchpad = EmptyPad

---------------------------------------------------------------------------
(* The router entered with a long conversation behind it *)

\* the longest history the router is entered with
MaxWindowHistory == 7

\* the i-th message of an earlier conversation, users and assistant taking
\* turns, each message with a text of its own
PastMessage(i) ==
    IF i % 2 = 1
    THEN [role |-> "user", content |-> "question " \o Digits[i + 1]]
    ELSE [role |-> "assistant", content |-> "answer " \o Digits[i + 1]]

WindowUtterances == {"never mind", "Python Basics", "Generate 5 Python questions"}

\* the state router_node is called with: process_message has appended the
\* user message to what the conversation left
InitWindow ==
    /\ host \in Hosts
    /\ conns = NoConnections
    /\ user_role \in (IF host = "ws" THEN {"Consultant"} ELSE Roles)
    /\ pc = "router"
    /\ user_query \in WindowUtterances
    /\ \E n \in 0..(MaxWindowHistory - 1) :
            conversation_history =
                Append([i \in 1..n |-> PastMessage(i)],
                       [role |-> "user", content |-> user_query])
    /\ current_agent = None
    /\ awaiting \in ParamAgents \cup {None}
    /\ scratchpad = EmptyPad
    /\ system_response = ""
    /\ error = None
    /\ turn = [NoTurn EXCEPT !.outcome = "running",
                             !.pre_awaiting = awaiting]

NextWindow ==
    \/ RouterAbandon
    \/ \E raw \in ClassifierOutputs : RouterNode(raw)
    \/ RouterFail

SpecWindow == InitWindow /\ [][NextWindow]_vars

---------------------------------------------------------------------------
(* C30 *)

\* C30: the context window of the classifier.  On every turn that calls
\* the routing chain, the chain is given the role, the awaiting handler
\* (None for none), the utterance, and the last min(5, length) entries of
\* the history, oldest first and most recent last; no older entry is in
\* what it is given.
C30_ClassifierContextWindow ==
    turn.llm_calls = 1 =>
        LET h == conversation_history
            n == IF Len(h) < 5 THEN Len(h) ELSE 5
            given == turn.input.conversation_history
        IN  /\ turn.input.user_role = user_role
            /\ turn.input.current_agent_awaiting_parameters = turn.pre_awaiting
            /\ turn.input.user_query = user_query
            /\ given = JoinLines([i \in 1..n |->
                            h[Len(h) - n + i].role \o ": "
                                \o h[Len(h) - n + i].content])
            /\ \A i \in 1..(Len(h) - n) : ~Contains(given, h[i].content)

\* a classified turn with seven entries behind it: the two oldest are not
\* passed, the third is
C30_Witness ==
    /\ pc = "agent"
    /\ turn.llm_calls = 1
    /\ Len(conversation_history) = 7
    /\ turn.pre_awaiting = LEARNING
    /\ ~Contains(turn.input.conversation_history, "question 1")
    /\ ~Contains(turn.input.conversation_history, "answer 2")
    /\ Contains(turn.input.conversation_history, "user: question 3")
    /\ turn.input.user_query = "Python Basics"

---------------------------------------------------------------------------
(* The WebSocket server and its connections *)

\* One WebSocketHandler serves every connection: handler runs as one
\* coroutine per connection on one event loop, and handle_message gives up
\* the loop only at the await of send_message.  process_message is a plain
\* call, so from the first line of handle_message to that await nothing
\* else runs.  All connections work on the one self.session_state.

\* handler: a client connects and is registered
Connect(c) ==
    /\ host = "ws"
    /\ pc = "idle"
    /\ conns[c] = "closed"
    /\ conns' = [conns EXCEPT ![c] = "new"]
    /\ UNCHANGED <<host, pc, sessionVars, turn>>

\* handle_message with a query: the turn begins
Receive(c, u) ==
    /\ host = "ws"
    /\ conns[c] \in {"new", "open"}
    /\ Accept(u)
    /\ conns' = [conns EXCEPT ![c] = IF @ = "new" THEN "first" ELSE "handling"]

\* handle_message with an empty query or with a text that is not JSON:
\* the error message is sent and the session is left alone
ReceiveInvalid(c) ==
    /\ host = "ws"
    /\ pc = "idle"
    /\ conns[c] \in {"new", "open"}
    /\ conns' = [conns EXCEPT ![c] = IF @ = "new" THEN "rejecting"
                                                  ELSE "rejecting_open"]
    /\ UNCHANGED <<host, pc, sessionVars, turn>>

\* The messages a client may send.  json: the text is no JSON ("text"),
\* a JSON object, or another JSON value ("array"); query: the object has no
\* key user_query ("absent"), a string under it, or another value
\* ("other"); user_query: the string.
ConnUtterances ==
    { "How did I do on my Python assignment?",
      "I'm an intermediate, and I'm interested in NLP.",
      "Python Basics",
      "never mind" }

EmptyQueries == {"", " ", "   "}

WsMessages ==
    {[json |-> "text", query |-> "absent", user_query |-> ""],
     [json |-> "array", query |-> "absent", user_query |-> ""],
     [json |-> "object", query |-> "absent", user_query |-> ""],
     [json |-> "object", query |-> "other", user_query |-> ""]}
    \cup {[json |-> "object", query |-> "string", user_query |-> q] :
                q \in EmptyQueries \cup ConnUtterances
                        \cup {" Python Basics  "}}

\* data.get('user_query', '')
DataGet(m) == IF m.query = "absent" THEN "" ELSE m.user_query

\* mutant of handle_message: the query is written to the session before it
\* is tested
HandleMessage_WritesFirst(c, m) ==
    IF m.json # "object" \/ m.query = "other"
    THEN ReceiveInvalid(c)
    ELSE IF Strip(DataGet(m)) = ""
    THEN /\ host = "ws"
         /\ pc = "idle"
         /\ conns[c] \in {"new", "open"}
         /\ conns' = [conns EXCEPT ![c] = IF @ = "new" THEN "rejecting"
                                                       ELSE "rejecting_open"]
         /\ user_query' = Strip(DataGet(m))
         /\ UNCHANGED <<host, pc, user_role, conversation_history,
                        current_agent, awaiting, scratchpad,
                        system_response, error, turn>>
    ELSE Receive(c, Strip(DataGet(m)))

\* handle_message: json.loads raises JSONDecodeError on a text that is no
\* JSON; data.get or .strip() raises AttributeError on a value that is no
\* object or a query that is no string, which the last except branch
\* catches; an empty stripped query is answered with 'No query provided';
\* any other query begins a turn
HandleMessage(c, m) ==
    IF m.json = "text"
    THEN ReceiveInvalid(c)
    ELSE IF m.json # "object" \/ m.query = "other"
    THEN ReceiveInvalid(c)
    ELSE LET user_query_in == Strip(DataGet(m))
         IN  IF user_query_in = ""
             THEN ReceiveInvalid(c)
             ELSE Receive(c, user_query_in)

\* the await of send_message returns and the handler waits for the next
\* message
Reply(c) ==
    /\ pc = "idle"
    /\ conns[c] \in {"replying", "rejecting", "rejecting_open"}
    /\ conns' = [conns EXCEPT ![c] = IF @ = "rejecting" THEN "new" ELSE "open"]
    /\ UNCHANGED <<host, pc, sessionVars, turn>>

\* the client closes the connection; handler unregisters it
Disconnect(c) ==
    /\ pc = "idle"
    /\ conns[c] \in {"new", "open", "replying", "rejecting", "rejecting_open"}
    /\ conns' = [conns EXCEPT ![c] = "closed"]
    /\ UNCHANGED <<host, pc, sessionVars, turn>>

InitConnections == Init /\ host = "ws"

\* The role of the WebSocket session is Consultant, which the router never
\* lets through to question_generation_node.
NextConnections ==
    \/ \E c \in Conns : Connect(c)
    \/ \E c \in Conns : \E m \in WsMessages : HandleMessage(c, m)
    \/ \E c \in Conns : Reply(c)
    \/ \E c \in Conns : Disconnect(c)
    \/ RouterAbandon
    \/ \E raw \in ClassifierOutputs : RouterNode(raw)
    \/ RouterFail
    \/ \E g \in GenTexts : AssignmentReviewNode(g)
    \/ AssignmentReviewFail
    \/ \E g \in GenTexts : LearningPathNode(g)
    \/ LearningPathFail
    \/ \E g \in GenTexts : FaqFallbackNode(g)
    \/ FaqFallbackFail
    \/ Deliver

SpecConnections == InitConnections /\ [][NextConnections]_vars

\* the connections whose handler is inside a turn
InTurn == {c \in Conns : conns[c] \in {"first", "handling"}}

\* a turn is in progress exactly while one handler is inside it, and no
\* two handlers are
OneTurnAtATime ==
    /\ Cardinality(InTurn) <= 1
    /\ pc # "idle" <=> Cardinality(InTurn) = 1

---------------------------------------------------------------------------
(* C27, C28 *)

\* C27: turns of the session are strictly sequential.  With messages
\* arriving on several connections, one turn is in progress at a time, and
\* the state a turn starts from is not one that another turn has updated
\* in part: every earlier user message has its response, and slots are
\* collected only for a handler that is awaited.
C27_SequentialTurns ==
    /\ OneTurnAtATime
    /\ pc = "router"
            => /\ Len(conversation_history) % 2 = 1
               /\ turn.pre_awaiting = None => turn.pre_pad = EmptyPad

\* C28: every conversation starts from a fresh session state.  The first
\* turn of a new connection starts with no awaited handler, an empty
\* scratchpad and no history but its own user message.
C28_FreshPerConnection ==
    (pc = "router" /\ \E c \in Conns : conns[c] = "first")
        => /\ turn.pre_awaiting = None
           /\ turn.pre_pad = EmptyPad
           /\ Len(conversation_history) = 1

---------------------------------------------------------------------------
(* C31 *)

\* C31: count extraction.  In question generation, for an utterance that
\* holds an integer, the question count after extract_parameters and
\* validate_parameters is the first integer of the utterance, whatever its
\* value n >= 0.
C31_CountExtraction ==
    (/\ pc = "validated"
     /\ current_agent = QUESTION
     /\ turn.input = turn.once
     /\ turn.once = QuestionExtract(user_query, turn.pre_pad)
     /\ FirstInt(user_query) >= 0)
    => /\ "question_count" \in DOMAIN scratchpad
       /\ scratchpad["question_count"] = FirstInt(user_query)

---------------------------------------------------------------------------
(* A session of three turns *)

\* the history of a session of three turns
MaxCollectHistory == 6

CollectUtterances ==
    { "I want to learn machine learning",
      "Beginner",
      "Generate 5 Python questions",
      "Thanks!" }

\* what the routing chain returns in these sessions
CollectOutputs == {LEARNING, QUESTION, "CONTINUE_CURRENT"}

\* main's loop and handle_message, as Submit
SubmitCollect(u) == AcceptWithin(u, MaxCollectHistory) /\ UNCHANGED conns

\* No utterance of these sessions holds an abandonment phrase and the
\* routing chain never names assignment review, so route's abandonment
\* branch and assignment_review_node are not entered.
NextCollect ==
    \/ \E u \in CollectUtterances : SubmitCollect(u)
    \/ \E raw \in CollectOutputs : RouterNode(raw)
    \/ RouterFail
    \/ \E g \in GenTexts : LearningPathNode(g)
    \/ LearningPathFail
    \/ \E g \in GenTexts : QuestionGenerationNode(g)
    \/ QuestionGenerationFail
    \/ \E g \in GenTexts : FaqFallbackNode(g)
    \/ FaqFallbackFail
    \/ Deliver

SpecCollect == Init /\ [][NextCollect]_vars

---------------------------------------------------------------------------
(* C32 *)

\* the parameters of H that have no default
RequiredOf(H) ==
    {AGENTS[H].parameters[i] : i \in 1..Len(AGENTS[H].parameters)}
        \ {"question_count"}

\* text is a clarification of H
ClarificationOf(H, text) ==
    LET header == IF H = LEARNING
                  THEN "To recommend the best learning resources for you, I need:"
                  ELSE "To generate questions, I need:"
    IN  Len(text) >= Len(header) /\ SubSeq(text, 1, Len(header)) = header

\* among the first n utterances of the session, some utterance supplies
\* parameter k of H
SuppliedBy(H, k, n) ==
    \E i \in 1..n :
        Truthy(Extract(H, conversation_history[2 * i - 1].content, EmptyPad), k)

\* C32: multi-turn collection completes.  In a session whose turns ran to
\* their end, H permitted and left awaiting by every turn before this one
\* (each was answered with a clarification of H), this turn dispatched to H
\* by the routing chain, no abandonment phrase: when the utterances since
\* H started supply between them every parameter of H without a default,
\* this turn completes H (generation called, final response delivered,
\* awaiting None, scratchpad empty).
C32_CollectionCompletes ==
    \A H \in {LEARNING, QUESTION} :
        LET h == conversation_history
            n == Len(h) \div 2
        IN  (/\ TurnEnded
             /\ n >= 2
             /\ Len(h) = 2 * n
             /\ turn.asked = H
             /\ turn.via \in {"chain", "continue"}
             /\ RegistryAllows(H, user_role)
             /\ \A i \in 1..n : /\ h[2 * i - 1].role = "user"
                                /\ h[2 * i].role = "assistant"
                                /\ ~IsAbandonment(h[2 * i - 1].content)
             /\ \A i \in 1..(n - 1) : ClarificationOf(H, h[2 * i].content)
             /\ \A k \in RequiredOf(H) : SuppliedBy(H, k, n))
            => /\ turn.node = H
               /\ turn.complete = "yes"
               /\ turn.gen_calls = 1
               /\ ~ClarificationOf(H, system_response)
               /\ h[2 * n].content = system_response
               /\ awaiting = None
               /\ scratchpad = EmptyPad

\* three turns: the topic on the first, nothing on the second, the skill
\* level alone on the third
C32_Witness ==
    /\ TurnEnded
    /\ Len(conversation_history) = 6
    /\ conversation_history[1].content = "I want to learn machine learning"
    /\ ClarificationOf(LEARNING, conversation_history[2].content)
    /\ conversation_history[3].content = "Thanks!"
    /\ ClarificationOf(LEARNING, conversation_history[4].content)
    /\ conversation_history[5].content = "Beginner"
    /\ turn.via = "continue"
    /\ turn.node = LEARNING
    /\ turn.complete = "yes"
    /\ awaiting = None
    /\ scratchpad = EmptyPad

---------------------------------------------------------------------------
(* C33 *)

\* C33: a handler left awaiting is the one that ran and still lacks a
\* parameter.  At the end of every turn, an awaiting handler is the
\* current_agent, is one of the three parameterised handlers, and its
\* validate_parameters is incomplete on the scratchpad as it stands.
C33_AwaitingIsIncomplete ==
    (pc = "idle" /\ turn.outcome \in {"ok", "failed"} /\ awaiting # None)
        => /\ awaiting = current_agent
           /\ awaiting \in ParamAgents
           /\ ~Validate(awaiting, scratchpad).complete

---------------------------------------------------------------------------
(* C34 *)

\* C34: in a session whose role stays fixed, the awaiting handler is None
\* or a handler whose registry roles include the role.  A Consultant is
\* never awaiting question generation, an Admin never awaiting assignment
\* review or learning path; for the role SME awaiting is None throughout,
\* the router dispatches every turn to the fallback and no other handler
\* runs.
C34_AwaitingRespectsRole ==
    /\ awaiting # None => RegistryAllows(awaiting, user_role)
    /\ user_role = "Consultant" => awaiting # QUESTION
    /\ user_role = "Admin" => awaiting \notin {ASSIGNMENT, LEARNING}
    /\ user_role = "SME"
            => /\ awaiting = None
               /\ turn.node \in {None, FAQ}
               /\ pc \in {"agent", "deliver"} => current_agent = FAQ
               /\ TurnEnded => turn.node = FAQ

\* the second turn of an SME for whom the routing chain named the learning
\* path both times
C34_Witness ==
    /\ TurnEnded
    /\ user_role = "SME"
    /\ Len(conversation_history) = 4
    /\ turn.asked = LEARNING
    /\ turn.pre_agent = FAQ
    /\ turn.node = FAQ
    /\ awaiting = None

---------------------------------------------------------------------------
(* C35 *)

\* C35: routing has no effect on the collection state.  A step of the
\* router leaves awaiting, the scratchpad, the history, the role and the
\* response as they are, and awaiting and the scratchpad change only in
\* the step of the handler node the turn was dispatched to.
C35_RoutingFrame ==
    [][ /\ pc = "router"
            => UNCHANGED <<awaiting, scratchpad, conversation_history,
                           user_role, system_response>>
        /\ (awaiting' # awaiting \/ scratchpad' # scratchpad)
            => (pc = "agent" /\ turn'.node = current_agent) ]_vars

---------------------------------------------------------------------------
(* C36 *)

\* C36: one routing step, then one handler step, then the end.  The router
\* runs only as the first step of a turn; from the router the turn goes to
\* one of the four handler nodes, the one named by current_agent; the step
\* of that node is followed by the end of the turn, never by another
\* handler or by the router.  Each position of a turn is left for a later
\* one, so a turn is over after its three steps (two when a call raises in
\* the router).
C36_OneRouterOneHandler ==
    /\ [](pc = "agent" => current_agent \in AgentIds)
    /\ [](pc = "deliver" => turn.node = current_agent)
    /\ [](TurnEnded => turn.node = current_agent /\ turn.node \in AgentIds)
    /\ [][ /\ pc' = "router" => pc \in {"idle", "router"}
           /\ pc = "router"
                => \/ pc' = "router"
                   \/ pc' = "agent" /\ current_agent' \in AgentIds
                   \/ TurnFailed' /\ turn'.node = None
           /\ pc = "agent"
                => \/ pc' = "agent" /\ current_agent' = current_agent
                   \/ pc' = "deliver" /\ turn'.node = current_agent
                            /\ current_agent' = current_agent
                   \/ TurnFailed' /\ turn'.node = current_agent
           /\ pc = "deliver"
                => \/ pc' = "deliver"
                   \/ TurnEnded' /\ turn'.node = current_agent
                            /\ current_agent' = current_agent ]_vars

\* a continued turn has gone through the router and the learning path node
\* and has ended
C36_Witness ==
    /\ TurnEnded
    /\ turn.via = "continue"
    /\ turn.node = LEARNING
    /\ current_agent = LEARNING
    /\ turn.llm_calls = 1
    /\ Len(conversation_history) = 4

---------------------------------------------------------------------------
(* C37 *)

\* C37: in a turn that goes through the router, the denial inside question
\* generation is never taken.  Whenever the question generation node is
\* the one dispatched, the role of the session is Admin, so the node's own
\* check passes: it validates (or fails in its generation call), it never
\* answers with its denial text.  The role may change between turns.
C37_InternalDenialUnreachable ==
    /\ (pc = "agent" /\ current_agent = QUESTION)
            => /\ user_role = "Admin"
               /\ CheckPermissions(user_role)
    /\ (pc \in {"deliver", "idle"} /\ turn.node = QUESTION)
            => /\ user_role = "Admin"
               /\ turn.complete \in {"yes", "no"}
    /\ system_response # QuestionDenial

\* an Admin's second turn was dispatched to question generation, which
\* asked for what is missing; the turn before it went to the fallback
C37_Witness ==
    /\ pc = "deliver"
    /\ turn.node = QUESTION
    /\ user_role = "Admin"
    /\ turn.complete = "no"
    /\ awaiting = QUESTION
    /\ Len(conversation_history) = 3
    /\ turn.pre_agent = FAQ

---------------------------------------------------------------------------
(* C38 *)

\* the messages the claim is about: no JSON, or no user_query, or one that
\* is empty or blank
Unusable(m) ==
    \/ m.json = "text"
    \/ m.query = "absent"
    \/ m.query = "string" /\ Strip(m.user_query) = ""

RejectStatuses == {"rejecting", "rejecting_open"}

=============================================================================
